---- MODULE Spec2Model ----
(***************************************************************************)
(* The /chats component of minecraft_ai: the API-key guard                 *)
(* (api/security.py), the in-memory fixed-window rate limiter and the      *)
(* three conversation endpoints (api/routers/chat.py) over the SQL store   *)
(* (database/models.py, database/database.py).                             *)
(*                                                                         *)
(* A request occupies a slot and moves through the positions               *)
(*   idle -> rate_limiter -> rate_limiter_check -> endpoint -> (awaiting)  *)
(* verify_api_key and the endpoints are coroutines: each runs on the event *)
(* loop without interruption up to its next await.  rate_limiter is a      *)
(* plain def, which FastAPI runs in a worker thread, so its read of the    *)
(* counter (line 37) and its write (line 43) are separate steps.           *)
(***************************************************************************)
EXTENDS Integers, Sequences, FiniteSets, TLC

\* ---------------------------------------------------------------- bounds
MaxSlots == 2
MaxLimiterRequests == 12
MaxRequests == 3

\* ------------------------------------------------------ program constants
RATE_LIMIT == 10
RATE_PERIOD == 60

None == "None"

Slots == 1..MaxSlots
Keys == {"keyA", "keyB"}
\* what the X-API-Key header can carry: nothing, or a string
Credentials == {None} \cup Keys
\* what MINECRAFT_AI_API_KEY can hold: unset, or a string
ConfiguredKeys == {None} \cup Keys
\* the same with the variable set to the empty string
EnvironmentValues == {None, ""} \cup Keys
\* the instants at which the wall clock is read: the last second of a
\* window and the first second of the next
FirstTime == RATE_PERIOD - 1
Times == {FirstTime, RATE_PERIOD}

\* texts are sequences of characters
Texts == {<< >>, <<" ", "\t">>, <<"h", "i">>, <<" ", "h", " ">>}
Replies == {<<"o", "k">>, << >>}
ExceptionTexts == {"boom", "timeout"}

VARIABLES
    configured_key,   \* os.environ["MINECRAFT_AI_API_KEY"]
    chat_ai_agent,    \* the name ai_agent of routers/chat.py: TRUE when bound to an agent
    agents_ai_agent,  \* the global ai_agent of agents.py: TRUE when bound to an agent
    lifespan,         \* "import" until the lifespan context is entered, then "serving"
    clock,            \* the wall clock, in seconds
    rate_limit_store, \* _rate_limit_store: key -> count, a key being <<api_key, window>>
    admitted,         \* history: key -> number of requests rate_limiter let through
    conversations,    \* table conversation: row i has id i
    messages,         \* table conversationmessage, committed rows: row i has id i
    pc,               \* slot -> position of its request
    api_key,          \* slot -> owner identity verify_api_key returned
    rl_key,           \* slot -> local `key` of rate_limiter
    rl_count,         \* slot -> local `count` of rate_limiter
    conv_id,          \* slot -> conversation_id of the suspended add_message call
    message,          \* slot -> request.message of the suspended add_message call
    message_history,  \* slot -> message_history handed to the agent
    session_new,      \* slot -> rows added to the request's Session, not yet committed
    response,         \* the response sent by the last step (NoResponse if it sent none),
                      \* with the request it answers
    arrivals          \* number of requests received so far

vars == <<configured_key, chat_ai_agent, agents_ai_agent, lifespan, clock,
          rate_limit_store, admitted,
          conversations, messages, pc, api_key, rl_key, rl_count, conv_id,
          message, message_history, session_new, response, arrivals>>

env_vars == <<configured_key, chat_ai_agent, agents_ai_agent, lifespan, clock>>
db_vars == <<conversations, messages>>
limiter_vars == <<rate_limit_store, admitted>>
limiter_locals == <<rl_key, rl_count>>
call_locals == <<conv_id, message, message_history, session_new>>

\* ---------------------------------------------------------------- helpers
\* dict.get(k, default) and dict[k] = v
Get(d, k, default) == IF k \in DOMAIN d THEN d[k] ELSE default
Put(d, k, v) == [x \in (DOMAIN d) \cup {k} |-> IF x = k THEN v ELSE d[x]]
EmptyDict == [x \in {} |-> 0]

\* Python truthiness of an Optional[str] held as None or a string
Truthy(v) == v # None /\ v # ""

IsSpace(c) == c \in {" ", "\t", "\n"}

RECURSIVE LStrip(_)
LStrip(t) == IF t = << >> THEN << >>
             ELSE IF IsSpace(Head(t)) THEN LStrip(Tail(t)) ELSE t

RECURSIVE RStrip(_)
RStrip(t) == IF t = << >> THEN << >>
             ELSE IF IsSpace(t[Len(t)]) THEN RStrip(SubSeq(t, 1, Len(t) - 1)) ELSE t

\* str.strip()
Strip(t) == RStrip(LStrip(t))

\* the response record: the request it answers (op, api_key, conversation_id,
\* message, player_uuid, player_username), what ai_agent.run did for it
\* (agent) and what the caller receives (status, detail, reply, listed)
Reply(op, key, cid, msg, uuid, uname, agent, status, detail, reply, listed) ==
    [op |-> op, api_key |-> key, conversation_id |-> cid, message |-> msg,
     player_uuid |-> uuid, player_username |-> uname, agent |-> agent,
     status |-> status, detail |-> detail, reply |-> reply, listed |-> listed]

\* ai_agent.run was not called
NoAgent == <<"none", << >> >>

NoResponse == Reply("none", None, 0, << >>, None, None, NoAgent, 0, <<"">>, << >>, << >>)

\* ------------------------------------------------------------ environment
\* the wall clock advances
Tick ==
    /\ \E t \in Times : t > clock /\ clock' = t
    /\ UNCHANGED <<configured_key, chat_ai_agent, agents_ai_agent, lifespan,
                   limiter_vars, db_vars, pc, api_key,
                   limiter_locals, call_locals, arrivals>>
    /\ response' = NoResponse

\* the environment variable is set, changed or removed; verify_api_key reads
\* it anew on every request
SetConfiguredKeyIn(values) ==
    /\ \E k \in values : k # configured_key /\ configured_key' = k
    /\ UNCHANGED <<chat_ai_agent, agents_ai_agent, lifespan, clock,
                   limiter_vars, db_vars, pc, api_key,
                   limiter_locals, call_locals, arrivals>>
    /\ response' = NoResponse

SetConfiguredKey == SetConfiguredKeyIn(ConfiguredKeys)

\* ------------------------------------------------------------ Access Guard
\* the credential examined before the configuration
VerifyStatusCredentialFirst(configured, cred) ==
    IF ~Truthy(cred) THEN 401
    ELSE IF ~Truthy(configured) THEN 500
    ELSE IF cred # configured THEN 401
    ELSE 200

\* the comparison of line 35 left out
VerifyStatusAnyKey(configured, cred) ==
    IF ~Truthy(configured) THEN 500
    ELSE IF ~Truthy(cred) THEN 401
    ELSE 200

VerifyStatus(configured, cred) ==
    IF ~Truthy(configured) THEN 500
    ELSE IF ~Truthy(cred) THEN 401
    ELSE IF cred # configured THEN 401
    ELSE 200

VerifyDetail(configured, cred) ==
    IF ~Truthy(configured) THEN "Server configuration error: API Key not configured."
    ELSE IF ~Truthy(cred) THEN "API key required. Please provide a key in the X-API-Key header."
    ELSE IF cred # configured THEN "Invalid API key."
    ELSE ""

\* the limiter run before the guard: a refused request is counted under the
\* key of its header
VerifyApiKeyAfterLimiter(s, cap) ==
    /\ pc[s] = "idle"
    /\ \E cred \in Credentials :
         IF VerifyStatus(configured_key, cred) = 200
         THEN /\ arrivals < cap
              /\ arrivals' = arrivals + 1
              /\ api_key' = [api_key EXCEPT ![s] = cred]
              /\ pc' = [pc EXCEPT ![s] = "rate_limiter"]
              /\ response' = NoResponse
              /\ UNCHANGED limiter_vars
         ELSE /\ response' = Reply("verify_api_key", cred, 0, << >>, None, None, NoAgent,
                                   VerifyStatus(configured_key, cred),
                                   <<VerifyDetail(configured_key, cred)>>, << >>, << >>)
              /\ rate_limit_store' =
                   Put(rate_limit_store, <<cred, clock \div RATE_PERIOD>>,
                       Get(rate_limit_store, <<cred, clock \div RATE_PERIOD>>, 0) + 1)
              /\ UNCHANGED <<admitted, api_key, pc, arrivals>>
    /\ UNCHANGED <<env_vars, db_vars, limiter_locals, call_locals>>

\* a request arrives in a free slot and verify_api_key runs on its header;
\* `cap` bounds the number of requests that pass the guard
VerifyApiKey(s, cap) ==
    /\ pc[s] = "idle"
    /\ \E cred \in Credentials :
         IF VerifyStatus(configured_key, cred) = 200
         THEN /\ arrivals < cap
              /\ arrivals' = arrivals + 1
              /\ api_key' = [api_key EXCEPT ![s] = cred]
              /\ pc' = [pc EXCEPT ![s] = "rate_limiter"]
              /\ response' = NoResponse
         ELSE /\ response' = Reply("verify_api_key", cred, 0, << >>, None, None, NoAgent,
                                   VerifyStatus(configured_key, cred),
                                   <<VerifyDetail(configured_key, cred)>>, << >>, << >>)
              /\ UNCHANGED <<api_key, pc, arrivals>>
    /\ UNCHANGED <<env_vars, limiter_vars, db_vars, limiter_locals, call_locals>>

\* ------------------------------------------------------------ Rate Limiter
RateLimitKey(key, now) == <<key, now \div RATE_PERIOD>>

RateLimitExceededAbove(count) == count > RATE_LIMIT

RateLimitExceeded(count) == count >= RATE_LIMIT

NextCountByTwo(count) == count + 2

NextCount(count) == count + 1

RateLimitDetail == "Rate limit exceeded: 10 requests per 60 seconds."

\* lines 35-37: read the clock, build the key, read the count
RateLimiterRead(s) ==
    /\ pc[s] = "rate_limiter"
    /\ rl_key' = [rl_key EXCEPT ![s] = RateLimitKey(api_key[s], clock)]
    /\ rl_count' = [rl_count EXCEPT ![s] =
                       Get(rate_limit_store, RateLimitKey(api_key[s], clock), 0)]
    /\ pc' = [pc EXCEPT ![s] = "rate_limiter_check"]
    /\ response' = NoResponse
    /\ UNCHANGED <<env_vars, limiter_vars, db_vars, api_key, call_locals, arrivals>>

\* the request is answered: its slot is free again
Release(s) ==
    /\ pc' = [pc EXCEPT ![s] = "idle"]
    /\ api_key' = [api_key EXCEPT ![s] = None]

\* lines 38-43: refuse, or store count + 1
RateLimiterCheck(s) ==
    /\ pc[s] = "rate_limiter_check"
    /\ IF RateLimitExceeded(rl_count[s])
       THEN /\ response' = Reply("rate_limiter", api_key[s], 0, << >>, None, None, NoAgent,
                                 429, <<RateLimitDetail>>, << >>, << >>)
            /\ Release(s)
            /\ UNCHANGED limiter_vars
       ELSE /\ rate_limit_store' = Put(rate_limit_store, rl_key[s], NextCount(rl_count[s]))
            /\ admitted' = Put(admitted, rl_key[s], Get(admitted, rl_key[s], 0) + 1)
            /\ pc' = [pc EXCEPT ![s] = "endpoint"]
            /\ response' = NoResponse
            /\ UNCHANGED api_key
    /\ rl_key' = [rl_key EXCEPT ![s] = <<None, 0>>]
    /\ rl_count' = [rl_count EXCEPT ![s] = 0]
    /\ UNCHANGED <<env_vars, db_vars, call_locals, arrivals>>

\* ------------------------------------------------------- Conversation Store
PlayerValues == {None, "", "p1"}
PlainPlayers == {None}
Topics == {None}

\* created_at running against the clock
ConversationRowReversed(owner, topic, uuid, uname, now) ==
    [owner_identifier |-> owner, topic |-> topic, player_uuid |-> uuid,
     player_username |-> uname, created_at |-> FirstTime + RATE_PERIOD - now]

\* a row of table conversation (database/models.py); its id is its position
ConversationRow(owner, topic, uuid, uname, now) ==
    [owner_identifier |-> owner, topic |-> topic, player_uuid |-> uuid,
     player_username |-> uname, created_at |-> now]

\* a row of table conversationmessage; its id is its position once committed
MessageRow(cid, role, content, now) ==
    [conversation_id |-> cid, role |-> role, content |-> content, timestamp |-> now]

ConversationInfo(i) ==
    [id |-> i, topic |-> conversations[i].topic, created_at |-> conversations[i].created_at,
     player_uuid |-> conversations[i].player_uuid,
     player_username |-> conversations[i].player_username]

\* only the row added last is inserted
CommitLast(rows, pending) ==
    IF pending = << >> THEN rows ELSE Append(rows, pending[Len(pending)])

\* db.commit(): the rows of the session are inserted, in the order they were
\* added, in one transaction
Commit(rows, pending) == rows \o pending

\* ids a request can name: those of the conversations that MaxRequests
\* requests can have created before an add_message call, and one more
ConversationIds == 1..MaxRequests

\* ------------------------------------------------------ create_conversation
\* the id of the newest row given out again
AssignedIdLast(rows) == IF rows = << >> THEN 1 ELSE Len(rows)

\* models.py line 25: the primary key the store assigns to an inserted row
\* (read back by db.refresh, line 76); rows are never deleted
AssignedId(rows) == Len(rows) + 1

CreateConversation(s, players) ==
    /\ pc[s] = "endpoint"
    /\ \E topic \in Topics, uuid \in players, uname \in players :
         /\ conversations' = Commit(conversations,
                <<ConversationRow(api_key[s], topic, uuid, uname, clock)>>)
         /\ response' = Reply("create", api_key[s], AssignedId(conversations), << >>,
                              uuid, uname, NoAgent, 201, <<"">>, << >>,
                              <<[id |-> AssignedId(conversations), topic |-> topic,
                                 created_at |-> clock, player_uuid |-> uuid,
                                 player_username |-> uname]>>)
    /\ Release(s)
    /\ UNCHANGED <<env_vars, limiter_vars, messages, limiter_locals, call_locals, arrivals>>

\* ------------------------------------------------------- list_conversations
\* the owner clause applied only when no filter is given
ListStatementFilterFirst(c, owner, uuid, uname) ==
    /\ (~Truthy(uuid) /\ ~Truthy(uname)) => c.owner_identifier = owner
    /\ Truthy(uuid) => c.player_uuid = uuid
    /\ Truthy(uname) => c.player_username = uname

\* the WHERE clause of lines 100-104
ListStatement(c, owner, uuid, uname) ==
    /\ c.owner_identifier = owner
    /\ Truthy(uuid) => c.player_uuid = uuid
    /\ Truthy(uname) => c.player_username = uname

RECURSIVE SelectIds(_, _, _, _)
\* the ids of the matching rows among the first n, in id order
SelectIds(n, owner, uuid, uname) ==
    IF n = 0 THEN << >>
    ELSE IF ListStatement(conversations[n], owner, uuid, uname)
         THEN Append(SelectIds(n - 1, owner, uuid, uname), n)
         ELSE SelectIds(n - 1, owner, uuid, uname)

\* the rows come in the opposite order when no other request is at its
\* endpoint
ListResultScanVaries(owner, uuid, uname) ==
    LET ids == SelectIds(Len(conversations), owner, uuid, uname)
        alone == Cardinality({s \in Slots : pc[s] = "endpoint"}) = 1
    IN  [k \in 1..Len(ids) |->
            ConversationInfo(IF alone THEN ids[Len(ids) + 1 - k] ELSE ids[k])]

ListResult(owner, uuid, uname) ==
    LET ids == SelectIds(Len(conversations), owner, uuid, uname)
    IN  [k \in 1..Len(ids) |-> ConversationInfo(ids[k])]

ListConversations(s, filters) ==
    /\ pc[s] = "endpoint"
    /\ \E uuid \in filters, uname \in filters :
         response' = Reply("list", api_key[s], 0, << >>, uuid, uname, NoAgent,
                           200, <<"">>, << >>, ListResult(api_key[s], uuid, uname))
    /\ Release(s)
    /\ UNCHANGED <<env_vars, limiter_vars, db_vars, limiter_locals, call_locals, arrivals>>

\* -------------------------------------------------- add_message_to_conversation
MessageIsEmpty(text) == text = << >>

\* line 138
MessageIsBlank(text) == text = << >> \/ Strip(text) = << >>

ConversationExists(cid, owner) == cid \in 1..Len(conversations)

\* the agent test made before the ownership test
ConversationFoundIfAgent(cid, owner) ==
    \/ ~chat_ai_agent
    \/ /\ cid \in 1..Len(conversations)
       /\ conversations[cid].owner_identifier = owner

\* lines 153-154: db.get and the ownership test
ConversationFound(cid, owner) ==
    /\ cid \in 1..Len(conversations)
    /\ conversations[cid].owner_identifier = owner

AgentAssumed == TRUE

\* line 158
AgentAvailable == chat_ai_agent

\* lines 166-171: the ids of the conversation's committed rows, ORDER BY
\* timestamp; SQL leaves the order of rows with equal timestamps open
MessageIdsOf(cid) == {i \in 1..Len(messages) : messages[i].conversation_id = cid}

OrderedByTimestamp(cid) ==
    LET ids == MessageIdsOf(cid)
        n == Cardinality(ids)
    IN  {q \in [1..n -> ids] :
            /\ \A i, j \in 1..n : i # j => q[i] # q[j]
            /\ \A i, j \in 1..n : i < j => messages[q[i]].timestamp <= messages[q[j]].timestamp}

\* lines 174-176
ModelMessages(q) == [k \in 1..Len(q) |-> [role |-> messages[q[k]].role,
                                          content |-> messages[q[k]].content]]

SessionAddFirst(pending, row) == <<row>> \o pending

\* db.add(row): the row joins the session
SessionAdd(pending, row) == Append(pending, row)

TableAfterAddAutocommit(rows, row) == Append(rows, row)

\* db.add(row): the committed table is as it was
TableAfterAdd(rows, row) == rows

\* lines 137-191: up to the await of ai_agent.run
AddMessage(s) ==
    /\ pc[s] = "endpoint"
    /\ \E cid \in ConversationIds, text \in Texts :
         IF MessageIsBlank(text)
         THEN /\ response' = Reply("append", api_key[s], cid, text, None, None, NoAgent, 422,
                     <<"Message cannot be empty or consist only of whitespace">>, << >>, << >>)
              /\ Release(s)
              /\ UNCHANGED <<call_locals, messages>>
         ELSE IF ~ConversationFound(cid, api_key[s])
         THEN /\ response' = Reply("append", api_key[s], cid, text, None, None, NoAgent, 404,
                     <<"Conversation not found">>, << >>, << >>)
              /\ Release(s)
              /\ UNCHANGED <<call_locals, messages>>
         ELSE IF ~AgentAvailable
         THEN /\ response' = Reply("append", api_key[s], cid, text, None, None, NoAgent, 503,
                     <<"AI service is not available. Please check server configuration.">>,
                     << >>, << >>)
              /\ Release(s)
              /\ UNCHANGED <<call_locals, messages>>
         ELSE /\ \E q \in OrderedByTimestamp(cid) :
                   message_history' = [message_history EXCEPT ![s] = ModelMessages(q)]
              /\ conv_id' = [conv_id EXCEPT ![s] = cid]
              /\ message' = [message EXCEPT ![s] = text]
              /\ session_new' = [session_new EXCEPT ![s] =
                     SessionAdd(session_new[s], MessageRow(cid, "user", text, clock))]
              /\ messages' = TableAfterAdd(messages, MessageRow(cid, "user", text, clock))
              /\ pc' = [pc EXCEPT ![s] = "awaiting"]
              /\ response' = NoResponse
              /\ UNCHANGED api_key
    /\ UNCHANGED <<env_vars, limiter_vars, conversations, limiter_locals, arrivals>>

\* what ai_agent.run can do: return a ChatResponse, return something else, raise
AgentOutcomes ==
    {<<"reply", r>> : r \in Replies} \cup {<<"unexpected", << >> >>}
        \cup {<<"raised", <<e>> >> : e \in ExceptionTexts}

\* str(e) of line 231: for the HTTPException of line 220, "<status>: <detail>"
ExceptionString(o) ==
    IF o[1] = "raised" THEN o[2][1]
    ELSE "500: AI agent returned an unexpected response format."

\* any returned data taken for a ChatResponse
IsChatResponseUnchecked(o) == o[1] \in {"reply", "unexpected"}

\* line 196: isinstance(response_data, ChatResponse)
IsChatResponse(o) == o[1] = "reply"

\* line 231: the f-string, its literal part and str(e)
InternalErrorDetail(o) ==
    <<"Internal server error processing request: ", ExceptionString(o)>>

RolledBackKeeps(rows, pending) == rows \o pending

\* a rollback that takes committed rows with it
RolledBackTruncates(rows, pending) ==
    SubSeq(rows, 1, IF Len(rows) >= Len(pending) THEN Len(rows) - Len(pending) ELSE 0)

\* the committed table after db.rollback()
RolledBack(rows, pending) == rows

\* lines 191-232: from the return of ai_agent.run to the response; the
\* request's Session is closed with it
AgentReturns(s) ==
    /\ pc[s] = "awaiting"
    /\ \E o \in AgentOutcomes :
         IF IsChatResponse(o)
         THEN /\ messages' = Commit(messages,
                     SessionAdd(session_new[s],
                                MessageRow(conv_id[s], "assistant", o[2], clock)))
              /\ response' = Reply("append", api_key[s], conv_id[s], message[s], None, None,
                                   o, 200, <<"">>, o[2], << >>)
         ELSE /\ messages' = RolledBack(messages, session_new[s])
              /\ response' = Reply("append", api_key[s], conv_id[s], message[s], None, None,
                                   o, 500, InternalErrorDetail(o), << >>, << >>)
    /\ session_new' = [session_new EXCEPT ![s] = << >>]
    /\ conv_id' = [conv_id EXCEPT ![s] = 0]
    /\ message' = [message EXCEPT ![s] = << >>]
    /\ message_history' = [message_history EXCEPT ![s] = << >>]
    /\ Release(s)
    /\ UNCHANGED <<env_vars, limiter_vars, conversations, limiter_locals, arrivals>>

SessionLeftOpen(pending) == pending

\* database.py lines 23-24: leaving `with Session(engine)` closes the
\* request's session, and what it held uncommitted is discarded
SessionClosed(pending) == << >>

\* the request is cancelled while it awaits ai_agent.run (line 191):
\* CancelledError is not an Exception, so the handler of line 225 does not
\* run and the exception leaves the endpoint; get_session closes the
\* session.  Nobody is answered.
Cancel(s) ==
    /\ pc[s] = "awaiting"
    /\ messages' = messages
    /\ response' = Reply("append", api_key[s], conv_id[s], message[s], None, None,
                         <<"cancelled", << >> >>, 0, <<"">>, << >>, << >>)
    /\ session_new' = [session_new EXCEPT ![s] = SessionClosed(session_new[s])]
    /\ conv_id' = [conv_id EXCEPT ![s] = 0]
    /\ message' = [message EXCEPT ![s] = << >>]
    /\ message_history' = [message_history EXCEPT ![s] = << >>]
    /\ Release(s)
    /\ UNCHANGED <<env_vars, limiter_vars, conversations, limiter_locals, arrivals>>

\* the name ai_agent of routers/chat.py is bound to None at import (line 11);
\* the test-suite rebinds it to an agent and back
SetAgent ==
    /\ chat_ai_agent' = ~chat_ai_agent
    /\ UNCHANGED <<configured_key, agents_ai_agent, lifespan, clock,
                   limiter_vars, db_vars, pc, api_key,
                   limiter_locals, call_locals, arrivals>>
    /\ response' = NoResponse

\* OPENAI_API_KEY of agents.py, read from the environment at import
OpenAIKeys == {None, "", "sk"}

\* initialize_agents: the binding of agents.ai_agent it leaves, given the
\* binding it finds, OPENAI_API_KEY and whether Agent(...) raises
InitializeAgents(bound, key, raises) ==
    IF bound THEN bound
    ELSE IF ~Truthy(key) THEN bound
    ELSE IF raises THEN FALSE
    ELSE TRUE

\* the lifespan context is entered once, before the first request is
\* served: it calls initialize_agents, which rebinds the global of agents.py
\* and no other name
Lifespan ==
    /\ lifespan = "import"
    /\ \E key \in OpenAIKeys, raises \in BOOLEAN :
         agents_ai_agent' = InitializeAgents(agents_ai_agent, key, raises)
    /\ lifespan' = "serving"
    /\ UNCHANGED <<configured_key, chat_ai_agent, clock, limiter_vars, db_vars, pc,
                   api_key, limiter_locals, call_locals, arrivals>>
    /\ response' = NoResponse

\* ------------------------------------------------------------ specifications
\* the state after import, with no request in flight
InitRequests ==
    /\ chat_ai_agent = FALSE
    /\ agents_ai_agent = FALSE
    /\ lifespan = "import"
    /\ clock = FirstTime
    /\ conversations = << >>
    /\ messages = << >>
    /\ pc = [s \in Slots |-> "idle"]
    /\ api_key = [s \in Slots |-> None]
    /\ rl_key = [s \in Slots |-> <<None, 0>>]
    /\ rl_count = [s \in Slots |-> 0]
    /\ conv_id = [s \in Slots |-> 0]
    /\ message = [s \in Slots |-> << >>]
    /\ message_history = [s \in Slots |-> << >>]
    /\ session_new = [s \in Slots |-> << >>]
    /\ response = NoResponse
    /\ arrivals = 0

Init ==
    /\ InitRequests
    /\ configured_key \in ConfiguredKeys
    /\ rate_limit_store = EmptyDict
    /\ admitted = EmptyDict

Next ==
    \/ Tick
    \/ SetConfiguredKey
    \/ SetAgent
    \/ \E s \in Slots :
         \/ VerifyApiKey(s, MaxRequests)
         \/ RateLimiterRead(s)
         \/ RateLimiterCheck(s)
         \/ CreateConversation(s, PlainPlayers)
         \/ ListConversations(s, PlainPlayers)
         \/ AddMessage(s)
         \/ AgentReturns(s)
         \/ Cancel(s)

Spec == Init /\ [][Next]_vars

\* the limiter under a load of list requests of one owner, two requests in
\* flight; the store is empty or still holds the count of another owner
\* from the time that owner's key was the configured one
OtherOwnerStore == [k \in {<<"keyB", 0>>} |-> 3]

InitLimiter ==
    /\ InitRequests
    /\ configured_key = "keyA"
    /\ rate_limit_store \in {EmptyDict, OtherOwnerStore}
    /\ admitted = rate_limit_store

NextLimiter ==
    \/ Tick
    \/ \E s \in Slots :
         \/ VerifyApiKey(s, MaxLimiterRequests)
         \/ RateLimiterRead(s)
         \/ RateLimiterCheck(s)
         \/ ListConversations(s, PlainPlayers)

SpecLimiter == InitLimiter /\ [][NextLimiter]_vars

\* the same load from an empty store, one request at a time, the configured
\* key changing
NextSequential ==
    \/ Tick
    \/ SetConfiguredKey
    \/ VerifyApiKey(1, MaxLimiterRequests)
    \/ RateLimiterRead(1)
    \/ RateLimiterCheck(1)
    \/ ListConversations(1, PlainPlayers)

SpecSequential == Init /\ [][NextSequential]_vars

\* conversations with player fields, listed with filters, one request at a
\* time
NextListing ==
    \/ SetConfiguredKey
    \/ VerifyApiKey(1, MaxRequests)
    \/ RateLimiterRead(1)
    \/ RateLimiterCheck(1)
    \/ CreateConversation(1, PlayerValues)
    \/ ListConversations(1, PlayerValues)

SpecListing == Init /\ [][NextListing]_vars

\* the whole pipeline when owner keyA has one request left in the first
\* window: nine requests of keyA were let through before
NearLimitStore == [k \in {<<"keyA", 0>>} |-> RATE_LIMIT - 1]

InitPipeline ==
    /\ InitRequests
    /\ configured_key = "keyA"
    /\ rate_limit_store = NearLimitStore
    /\ admitted = NearLimitStore

NextPipeline ==
    \/ Tick
    \/ SetAgent
    \/ \E s \in Slots :
         \/ VerifyApiKey(s, MaxRequests)
         \/ RateLimiterRead(s)
         \/ RateLimiterCheck(s)
         \/ CreateConversation(s, PlainPlayers)
         \/ ListConversations(s, PlainPlayers)
         \/ AddMessage(s)
         \/ AgentReturns(s)
         \/ Cancel(s)

SpecPipeline == InitPipeline /\ [][NextPipeline]_vars

\* the application started by its server: the lifespan context is entered
\* first, requests are served after it; one owner, a fresh limiter
InitStartup ==
    /\ InitRequests
    /\ configured_key = "keyA"
    /\ rate_limit_store = EmptyDict
    /\ admitted = EmptyDict

Serving == lifespan = "serving"

NextStartup ==
    \/ Lifespan
    \/ Serving /\ Tick
    \/ Serving /\ SetAgent
    \/ \E s \in Slots :
         \/ Serving /\ VerifyApiKey(s, MaxRequests)
         \/ RateLimiterRead(s)
         \/ RateLimiterCheck(s)
         \/ CreateConversation(s, PlainPlayers)
         \/ ListConversations(s, PlainPlayers)
         \/ AddMessage(s)
         \/ AgentReturns(s)
         \/ Cancel(s)

SpecStartup == InitStartup /\ [][NextStartup]_vars

\* create and list requests of one owner, two in flight, so that a list
\* request can directly follow another; one request more than in Spec, so
\* that two conversations can be listed twice
FilterValues == {None, "p1"}

InitRepeated ==
    /\ Init
    /\ configured_key = "keyA"

NextRepeated ==
    \E s \in Slots :
        \/ VerifyApiKey(s, MaxRequests + 1)
        \/ RateLimiterRead(s)
        \/ RateLimiterCheck(s)
        \/ CreateConversation(s, FilterValues)
        \/ ListConversations(s, FilterValues)

SpecRepeated == InitRepeated /\ [][NextRepeated]_vars

\* the guard before create and list requests, one request at a time, the
\* environment variable unset, empty or set, and changing
InitGuard ==
    /\ InitRequests
    /\ configured_key \in EnvironmentValues
    /\ rate_limit_store = EmptyDict
    /\ admitted = EmptyDict

NextGuard ==
    \/ SetConfiguredKeyIn(EnvironmentValues)
    \/ VerifyApiKey(1, MaxRequests)
    \/ RateLimiterRead(1)
    \/ RateLimiterCheck(1)
    \/ CreateConversation(1, PlainPlayers)
    \/ ListConversations(1, PlainPlayers)

SpecGuard == InitGuard /\ [][NextGuard]_vars

\* ------------------------------------------------------------------ claims
\* what the caller receives of a response
Observable(r) == [status |-> r.status, detail |-> r.detail, reply |-> r.reply,
                  listed |-> r.listed]

WhitespaceOnly(text) == \A i \in 1..Len(text) : text[i] \in {" ", "\t", "\n"}

Exists(cid) == cid \in 1..Len(conversations)

OwnedBy(cid, owner) == Exists(cid) /\ conversations[cid].owner_identifier = owner

RolesOf(cid, role) ==
    {i \in 1..Len(messages) : messages[i].conversation_id = cid /\ messages[i].role = role}

\* C1: the committed messages are complete exchanges: the rows come in
\* pairs, a user row directly followed by the assistant row of the same
\* conversation, and every conversation has as many user rows as assistant rows
C1_ExchangesComplete ==
    /\ Len(messages) % 2 = 0
    /\ \A i \in 1..Len(messages) :
         IF i % 2 = 1
         THEN /\ messages[i].role = "user"
              /\ i + 1 <= Len(messages)
              /\ messages[i + 1].role = "assistant"
              /\ messages[i + 1].conversation_id = messages[i].conversation_id
         ELSE messages[i].role = "assistant"
    /\ \A cid \in ConversationIds :
         Cardinality(RolesOf(cid, "user")) = Cardinality(RolesOf(cid, "assistant"))

\* an exchange is committed while another call holds its user message,
\* uncommitted, and waits for the agent
C1_Witness ==
    /\ Len(messages) >= 2
    /\ \E s \in Slots : pc[s] = "awaiting" /\ Len(session_new[s]) = 1
                        /\ session_new[s][1].role = "user"

\* C2: when ai_agent.run raises, the call is answered with status 500, the
\* committed messages are left as they were and the user message of the call
\* is dropped from its session
C2_AgentFailureRollsBack ==
    [][\A s \in Slots :
          (pc[s] = "awaiting" /\ pc'[s] = "idle" /\ response'.agent[1] = "raised")
          => /\ response'.status = 500
             /\ response'.op = "append"
             /\ messages' = messages
             /\ session_new'[s] = << >>]_vars

C2_Witness ==
    /\ response.op = "append"
    /\ response.agent[1] = "raised"
    /\ response.status = 500
    /\ RolesOf(response.conversation_id, "user") = {}

\* C3: no (owner, window) key has more requests let through than the limit
C3_AdmittedWithinLimit ==
    \A k \in DOMAIN admitted : admitted[k] <= RATE_LIMIT

C5_TenPerWindow ==
    [][(pc[1] = "rate_limiter_check" /\ pc'[1] # "rate_limiter_check")
          => /\ rl_key[1] = <<api_key[1], rl_key[1][2]>>
             /\ IF Get(admitted, rl_key[1], 0) < 10
                THEN pc'[1] = "endpoint" /\ response' = NoResponse
                ELSE pc'[1] = "idle" /\ response'.status = 429
                     /\ response'.detail = <<"Rate limit exceeded: 10 requests per 60 seconds.">>]_vars

\* ten requests of one owner passed in window 0, an eleventh was refused and
\* one more passed in window 1
C5_Witness ==
    \E k \in Keys :
        /\ DOMAIN admitted = {<<k, 0>>, <<k, 1>>}
        /\ admitted[<<k, 0>>] = 10
        /\ admitted[<<k, 1>>] = 1
        /\ arrivals = 12
        /\ pc[1] = "idle"

\* C6: every conversation a list response holds is owned by the identity
\* the request was made under, whatever the filters
C6_ListOnlyOwn ==
    response.op = "list"
    => \A k \in 1..Len(response.listed) :
          /\ Exists(response.listed[k].id)
          /\ conversations[response.listed[k].id].owner_identifier = response.api_key

\* a list whose filter matches a conversation of another owner, and one of
\* the caller's own
C6_Witness ==
    /\ response.op = "list"
    /\ response.player_uuid = "p1"
    /\ Len(response.listed) >= 1
    /\ \E i \in 1..Len(conversations) :
         /\ conversations[i].owner_identifier # response.api_key
         /\ conversations[i].player_uuid = "p1"

\* C7: an add_message call with a non-blank text on a conversation that does
\* not exist or that another identity owns is answered with status 404 and
\* the detail "Conversation not found", the same in both cases; the store
\* and every session are left unchanged and the agent is not run
C7_NotFoundUniform ==
    [][(/\ response'.op = "append"
        /\ ~WhitespaceOnly(response'.message)
        /\ ~OwnedBy(response'.conversation_id, response'.api_key))
          => /\ Observable(response') =
                  [status |-> 404, detail |-> <<"Conversation not found">>,
                   reply |-> << >>, listed |-> << >>]
             /\ response'.agent = NoAgent
             /\ conversations' = conversations
             /\ messages' = messages
             /\ session_new' = session_new
             /\ \A s \in Slots : pc'[s] = "awaiting" => pc[s] = "awaiting"]_vars

\* the 404 is given for a conversation that exists and is owned by another
\* identity
C7_Witness ==
    /\ response.op = "append"
    /\ response.status = 404
    /\ Exists(response.conversation_id)
    /\ conversations[response.conversation_id].owner_identifier # response.api_key

\* C8: when ai_agent.run returns a ChatResponse, the call is answered 200
\* with exactly its reply, and exactly two rows are committed after the rows
\* already there: (user, the caller's text) then (assistant, the reply), both
\* for the conversation of the call, which the caller owns
C8_ExchangeCommitted ==
    [][\A s \in Slots :
          (pc[s] = "awaiting" /\ pc'[s] = "idle" /\ response'.agent[1] = "reply")
          => /\ response'.status = 200
             /\ response'.reply = response'.agent[2]
             /\ response'.message = message[s]
             /\ ~WhitespaceOnly(message[s])
             /\ OwnedBy(conv_id[s], api_key[s])
             /\ Len(messages') = Len(messages) + 2
             /\ SubSeq(messages', 1, Len(messages)) = messages
             /\ messages'[Len(messages) + 1].conversation_id = conv_id[s]
             /\ messages'[Len(messages) + 1].role = "user"
             /\ messages'[Len(messages) + 1].content = message[s]
             /\ messages'[Len(messages) + 2].conversation_id = conv_id[s]
             /\ messages'[Len(messages) + 2].role = "assistant"
             /\ messages'[Len(messages) + 2].content = response'.agent[2]
             /\ conversations' = conversations]_vars

\* a reply is returned and stored after an earlier exchange
C8_Witness ==
    /\ response.op = "append"
    /\ response.agent[1] = "reply"
    /\ response.status = 200
    /\ Len(messages) = 4
    /\ messages[3].content = response.message
    /\ messages[4].content = response.reply

\* C9: an add_message call whose text is empty or only whitespace is
\* answered 422; it changes neither the store nor any session and the agent
\* is not run
C9_BlankRejected ==
    [][(response'.op = "append" /\ WhitespaceOnly(response'.message))
          => /\ response'.status = 422
             /\ response'.agent = NoAgent
             /\ conversations' = conversations
             /\ messages' = messages
             /\ session_new' = session_new
             /\ \A s \in Slots : pc'[s] = "awaiting" => pc[s] = "awaiting"]_vars

\* a whitespace-only text is refused on a conversation the caller owns while
\* the agent is available
C9_Witness ==
    /\ response.op = "append"
    /\ response.status = 422
    /\ response.message # << >>
    /\ OwnedBy(response.conversation_id, response.api_key)
    /\ chat_ai_agent

\* C10: while no agent is bound, no add_message call reaches ai_agent.run or
\* adds a row to its session, and a call with a non-blank text on a
\* conversation the caller owns is answered 503 with the store unchanged
C10_UnavailableNoOrphan ==
    [][\A s \in Slots :
          (pc[s] = "endpoint" /\ pc'[s] # "endpoint" /\ ~chat_ai_agent)
          => /\ pc'[s] = "idle"
             /\ session_new' = session_new
             /\ messages' = messages
             /\ (/\ response'.op = "append"
                 /\ ~WhitespaceOnly(response'.message)
                 /\ OwnedBy(response'.conversation_id, response'.api_key))
                => response'.status = 503]_vars

C10_Witness ==
    /\ response.op = "append"
    /\ response.status = 503
    /\ ~WhitespaceOnly(response.message)
    /\ OwnedBy(response.conversation_id, response.api_key)
    /\ messages = << >>

\* C11: while MINECRAFT_AI_API_KEY is unset or empty, every request, whatever
\* its X-API-Key header (none included), is answered by verify_api_key with
\* status 500 and the configuration detail, which differs from both 401
\* details, and no request gets past the guard
C11_UnconfiguredIs500 ==
    [][\A s \in Slots :
          (/\ configured_key \in {None, ""}
           /\ pc[s] = "idle"
           /\ (pc'[s] # "idle" \/ response'.op = "verify_api_key"))
          => /\ pc' = pc
             /\ api_key' = api_key
             /\ response'.op = "verify_api_key"
             /\ response'.status = 500
             /\ response'.detail = <<"Server configuration error: API Key not configured.">>
             /\ response'.detail # <<"Invalid API key.">>
             /\ response'.detail #
                  <<"API key required. Please provide a key in the X-API-Key header.">>]_vars

\* a request carrying a key that was the configured one is answered 500
\* after the variable was emptied
C11_Witness ==
    /\ response.op = "verify_api_key"
    /\ response.status = 500
    /\ response.api_key \in Keys
    /\ configured_key = ""
    /\ \E i \in 1..Len(conversations) :
         conversations[i].owner_identifier = response.api_key

\* C12: while a key is configured, a request gets past verify_api_key exactly
\* when its header equals the configured key, and the identity handed on is
\* that header value; a request without header is answered 401 with the
\* "required" detail, one with another value 401 with the "invalid" detail;
\* the guard changes neither the environment, the limiter, the store nor
\* any session
C12_GuardExactMatch ==
    [][\A s \in Slots :
          (/\ configured_key \in Keys
           /\ pc[s] = "idle"
           /\ (pc'[s] # "idle" \/ response'.op = "verify_api_key"))
          => /\ IF pc'[s] # "idle"
                THEN /\ pc'[s] = "rate_limiter"
                     /\ api_key'[s] = configured_key
                     /\ response' = NoResponse
                ELSE /\ pc' = pc
                     /\ api_key' = api_key
                     /\ response'.status = 401
                     /\ response'.api_key # configured_key
                     /\ response'.detail =
                          (IF response'.api_key = None
                           THEN <<"API key required. Please provide a key in the X-API-Key header.">>
                           ELSE <<"Invalid API key.">>)
             /\ configured_key' = configured_key
             /\ chat_ai_agent' = chat_ai_agent
             /\ rate_limit_store' = rate_limit_store
             /\ conversations' = conversations
             /\ messages' = messages
             /\ session_new' = session_new]_vars

\* a request with another key is refused after a request with the configured
\* key created a conversation
C12_Witness ==
    /\ response.op = "verify_api_key"
    /\ response.status = 401
    /\ response.api_key \in Keys
    /\ configured_key \in Keys
    /\ \E i \in 1..Len(conversations) :
         conversations[i].owner_identifier = configured_key

\* C13: when ai_agent.run returns data that is not a ChatResponse, the call
\* is answered with status 500, the committed messages are left as they were
\* (no user row, no assistant row) and the user message of the call is
\* dropped from its session
C13_UnexpectedShapeRollsBack ==
    [][\A s \in Slots :
          (pc[s] = "awaiting" /\ pc'[s] = "idle" /\ response'.agent[1] = "unexpected")
          => /\ response'.op = "append"
             /\ response'.status = 500
             /\ response'.reply = << >>
             /\ messages' = messages
             /\ conversations' = conversations
             /\ session_new'[s] = << >>]_vars

\* the unexpected data comes for a conversation that holds one committed
\* exchange, and it still holds just that
C13_Witness ==
    /\ response.op = "append"
    /\ response.agent[1] = "unexpected"
    /\ response.status = 500
    /\ Len(messages) = 2
    /\ Cardinality(RolesOf(response.conversation_id, "user")) = 1
    /\ Cardinality(RolesOf(response.conversation_id, "assistant")) = 1

\* C14: the detail of a 500 answer to an add_message call whose agent
\* raised holds no piece that is the text of the exception, and it is the
\* detail the call would have got had the exception carried any other text
C14_NoInternalsEchoed ==
    (response.op = "append" /\ response.status = 500 /\ response.agent[1] = "raised")
    => /\ \A i \in 1..Len(response.detail) : response.detail[i] # response.agent[2][1]
       /\ \A e \in ExceptionTexts :
            response.detail = InternalErrorDetail(<<"raised", <<e>> >>)

\* C15: an add_message call goes through its steps in order.  It reaches
\* ai_agent.run only with a non-blank text (validated), on a conversation the
\* caller owns (ownership checked), with the history loaded from the
\* committed rows and after that its user row added to its session and to
\* nothing else.  A call refused before that ran no agent and added nothing:
\* 422 for a blank text, else 404 for a conversation not owned, else 503.
\* Once at ai_agent.run the call ends in one of two ways: committed (answer
\* 200; its user row then the assistant row appended to the committed rows)
\* or failed (rolled back: committed rows unchanged), its session empty in
\* both
C15_StepOrder ==
    [][\A s \in Slots :
          /\ pc'[s] = "awaiting" => pc[s] \in {"endpoint", "awaiting"}
          /\ (pc[s] = "endpoint" /\ pc'[s] = "awaiting")
             => /\ ~WhitespaceOnly(message'[s])
                /\ OwnedBy(conv_id'[s], api_key[s])
                /\ Len(message_history'[s]) =
                     Cardinality(RolesOf(conv_id'[s], "user")
                                 \cup RolesOf(conv_id'[s], "assistant"))
                /\ session_new[s] = << >>
                /\ session_new'[s] = <<[conversation_id |-> conv_id'[s], role |-> "user",
                                        content |-> message'[s], timestamp |-> clock]>>
                /\ messages' = messages
                /\ response' = NoResponse
          /\ (pc[s] = "endpoint" /\ pc'[s] = "idle" /\ response'.op = "append")
             => /\ response'.agent = NoAgent
                /\ session_new' = session_new
                /\ messages' = messages
                /\ response'.status =
                     (IF WhitespaceOnly(response'.message) THEN 422
                      ELSE IF ~OwnedBy(response'.conversation_id, response'.api_key) THEN 404
                      ELSE 503)
          /\ (pc[s] = "awaiting" /\ pc'[s] # "awaiting")
             => /\ pc'[s] = "idle"
                /\ response'.op = "append"
                /\ session_new'[s] = << >>
                /\ \/ /\ response'.agent[1] = "reply"
                      /\ response'.status = 200
                      /\ Len(messages') = Len(messages) + 2
                      /\ SubSeq(messages', 1, Len(messages) + 1) = messages \o session_new[s]
                      /\ messages'[Len(messages')].role = "assistant"
                   \/ /\ response'.agent[1] \in {"raised", "unexpected", "cancelled"}
                      /\ response'.status # 200
                      /\ messages' = messages]_vars

\* one call committed its exchange while another call on the same
\* conversation, which loaded the history before, still waits for the agent
C15_Witness ==
    /\ response.op = "append"
    /\ response.status = 200
    /\ \E s \in Slots : /\ pc[s] = "awaiting"
                        /\ conv_id[s] = response.conversation_id
                        /\ message_history[s] = << >>
                        /\ Len(session_new[s]) = 1

\* the place of row id in the loaded order q
Position(q, id) == CHOOSE k \in 1..Len(q) : q[k] = id

\* the rows of a conversation that were committed when a call loaded a
\* history of n messages: its n rows of lowest id
LoadedRows(cid, n) ==
    {i \in MessageIdsOf(cid) : Cardinality({j \in MessageIdsOf(cid) : j <= i}) <= n}

\* the one order of a conversation's rows by timestamp, rows of equal
\* timestamp by id
ByTimestampThenId(cid) ==
    CHOOSE q \in OrderedByTimestamp(cid) :
        \A i, j \in 1..Len(q) :
            (i < j /\ messages[q[i]].timestamp = messages[q[j]].timestamp) => q[i] < q[j]

\* C16: when an add_message call commits, every history the statement of
\* lines 166-170 can return for the conversation from then on holds the
\* call's user message and the assistant reply, roles and contents as
\* given, both after every message of the history the call itself loaded
C16_RoundTrip ==
    [][\A s \in Slots :
          (pc[s] = "awaiting" /\ pc'[s] = "idle" /\ response'.agent[1] = "reply")
          => \A cid \in {conv_id[s]}, prior \in {LoadedRows(conv_id[s], Len(message_history[s]))} :
             \A q \in OrderedByTimestamp(cid)' :
                LET user == Len(messages) + 1
                    assistant == Len(messages) + 2
                    loaded == ModelMessages(q)'
                IN  /\ user \in MessageIdsOf(cid)'
                    /\ assistant \in MessageIdsOf(cid)'
                    /\ loaded[Position(q, user)] =
                          [role |-> "user", content |-> message[s]]
                    /\ loaded[Position(q, assistant)] =
                          [role |-> "assistant", content |-> response'.reply]
                    /\ \A i \in prior :
                          /\ Position(q, i) < Position(q, user)
                          /\ Position(q, i) < Position(q, assistant)]_vars

\* C17: the history an add_message call loads is the conversation's
\* committed rows in the order of their timestamps, rows of equal timestamp
\* in the order of their ids; it is the only order the load can give
C17_HistoryOrderDetermined ==
    [][\A s \in Slots :
          (pc[s] = "endpoint" /\ pc'[s] = "awaiting")
          => /\ message_history'[s] = ModelMessages(ByTimestampThenId(conv_id'[s]))
             /\ Cardinality(OrderedByTimestamp(conv_id'[s])) = 1]_vars

\* C18: a call cancelled while it waits for ai_agent.run leaves the committed
\* messages as they were (neither message of its exchange is stored) and its
\* user row does not stay pending: no request that has ended holds an
\* uncommitted row, and every step commits either nothing or exactly the two
\* rows of one exchange, the pending user row of the committing call and its
\* assistant row
C18_CancelResolves ==
    [][/\ \A s \in Slots :
            (pc[s] = "awaiting" /\ pc'[s] = "idle" /\ response'.agent[1] = "cancelled")
            => /\ messages' = messages
               /\ session_new[s] # << >>
               /\ session_new'[s] = << >>
       /\ \A s \in Slots : pc'[s] # "awaiting" => session_new'[s] = << >>
       /\ \/ messages' = messages
          \/ \E s \in Slots :
                /\ pc[s] = "awaiting"
                /\ Len(session_new[s]) = 1
                /\ Len(messages') = Len(messages) + 2
                /\ SubSeq(messages', 1, Len(messages) + 1) = messages \o session_new[s]
                /\ messages'[Len(messages')].role = "assistant"
                /\ messages'[Len(messages')].conversation_id = conv_id[s]]_vars

\* a call was cancelled after an exchange had been committed: the store
\* holds that exchange and nothing of the cancelled call, and no request is
\* in flight
C18_Witness ==
    /\ response.op = "append"
    /\ response.agent[1] = "cancelled"
    /\ Len(messages) = 2
    /\ \A s \in Slots : pc[s] = "idle" /\ session_new[s] = << >>

\* C19: in the history of every conversation, taken in the order of
\* timestamps with equal timestamps in the order of ids (one of the orders a
\* load can give), the roles alternate user, assistant and each user message
\* is directly followed by the assistant message committed with it
C19_ExchangesStayAdjacent ==
    \A cid \in ConversationIds :
        LET q == ByTimestampThenId(cid)
        IN  \A k \in 1..Len(q) :
                IF k % 2 = 1
                THEN /\ messages[q[k]].role = "user"
                     /\ k + 1 <= Len(q)
                     /\ q[k + 1] = q[k] + 1
                ELSE messages[q[k]].role = "assistant"

\* C20: the id a create_conversation call returns is the id of the row it
\* stored and of no row stored before; conversations are never removed or
\* renumbered by any step, so an id once returned names the same
\* conversation for ever and is not returned again
C20_IdsUnique ==
    [][/\ Len(conversations') >= Len(conversations)
       /\ SubSeq(conversations', 1, Len(conversations)) = conversations
       /\ response'.op = "create"
          => /\ response'.status = 201
             /\ response'.listed[1].id = response'.conversation_id
             /\ ~(response'.conversation_id \in 1..Len(conversations))
             /\ Len(conversations') = Len(conversations) + 1
             /\ response'.conversation_id = Len(conversations')
             /\ conversations'[response'.conversation_id].owner_identifier = response'.api_key
       /\ response'.op # "create" => conversations' = conversations]_vars

\* a third conversation is created, the earlier ones being of two owners
C20_Witness ==
    /\ response.op = "create"
    /\ response.conversation_id = 3
    /\ Len(conversations) = 3
    /\ \E i, j \in 1..2 : conversations[i].owner_identifier # conversations[j].owner_identifier

C22_ListExact ==
    response.op = "list"
    => /\ {response.listed[k].id : k \in 1..Len(response.listed)} =
            {i \in 1..Len(conversations) :
                /\ conversations[i].owner_identifier = response.api_key
                /\ response.player_uuid # None
                   => conversations[i].player_uuid = response.player_uuid
                /\ response.player_username # None
                   => conversations[i].player_username = response.player_username}
       /\ \A k, l \in 1..Len(response.listed) :
            k # l => response.listed[k].id # response.listed[l].id
       /\ \A k \in 1..Len(response.listed) :
            /\ response.listed[k].player_uuid =
                 conversations[response.listed[k].id].player_uuid
            /\ response.listed[k].player_username =
                 conversations[response.listed[k].id].player_username

PipelineMoves ==
    {<<"idle", "rate_limiter">>, <<"rate_limiter", "rate_limiter_check">>,
     <<"rate_limiter_check", "endpoint">>, <<"rate_limiter_check", "idle">>,
     <<"endpoint", "awaiting">>, <<"endpoint", "idle">>, <<"awaiting", "idle">>}

\* C24: a request goes through verify_api_key, then rate_limiter, then its
\* endpoint.  A request refused by verify_api_key (401, 500) changes no
\* limiter count and nothing of the store; a request refused by rate_limiter
\* (429) reads and writes nothing of the store and runs no agent; the store,
\* the sessions and the agent are touched only by a request that is at its
\* endpoint, and a count only by a request that rate_limiter lets through
C24_PipelineOrder ==
    [][/\ \A s \in Slots :
            /\ pc'[s] # pc[s] => <<pc[s], pc'[s]>> \in PipelineMoves
            /\ (pc[s] = "idle" /\ pc'[s] = "rate_limiter") => api_key'[s] = configured_key
       /\ response'.op = "verify_api_key"
          => /\ response'.status \in {401, 500}
             /\ pc' = pc
             /\ rate_limit_store' = rate_limit_store
             /\ conversations' = conversations
             /\ messages' = messages
             /\ session_new' = session_new
             /\ response'.agent = NoAgent
       /\ response'.status = 429
          => /\ response'.op = "rate_limiter"
             /\ \E s \in Slots : pc[s] = "rate_limiter_check" /\ pc'[s] = "idle"
             /\ conversations' = conversations
             /\ messages' = messages
             /\ session_new' = session_new
             /\ message_history' = message_history
             /\ response'.agent = NoAgent
       /\ (\/ conversations' # conversations
           \/ messages' # messages
           \/ session_new' # session_new
           \/ message_history' # message_history
           \/ response'.agent # NoAgent
           \/ response'.op \in {"create", "list", "append"})
          => \E s \in Slots : pc[s] \in {"endpoint", "awaiting"} /\ pc'[s] # pc[s]
       /\ rate_limit_store' # rate_limit_store
          => \E s \in Slots : pc[s] = "rate_limiter_check" /\ pc'[s] = "endpoint"]_vars

\* a request is refused by rate_limiter while the store holds a
\* conversation and another request waits for the agent
C24_Witness ==
    /\ response.status = 429
    /\ Len(conversations) = 1
    /\ \E s \in Slots : pc[s] = "awaiting"

\* C25: no step changes or removes a committed row: every conversation and
\* every message that is stored stays stored under its id with all its
\* fields (owner_identifier, created_at; conversation_id, role, content,
\* timestamp), whatever operation runs and however it ends
C25_CommittedRowsKept ==
    [][/\ Len(conversations') >= Len(conversations)
       /\ \A i \in 1..Len(conversations) : conversations'[i] = conversations[i]
       /\ Len(messages') >= Len(messages)
       /\ \A i \in 1..Len(messages) : messages'[i] = messages[i]]_vars

\* an add_message call failed on a conversation that holds a committed
\* exchange
C25_Witness ==
    /\ response.op = "append"
    /\ response.agent[1] = "raised"
    /\ Len(conversations) = 1
    /\ Len(messages) = 2
    /\ messages[1].conversation_id = response.conversation_id

\* C26: every stored count is between 1 and the limit, an entry once
\* stored stays, and no step lowers a count
C26_CountsInRange ==
    [][/\ \A k \in DOMAIN rate_limit_store' :
            1 <= rate_limit_store'[k] /\ rate_limit_store'[k] <= RATE_LIMIT
       /\ \A k \in DOMAIN rate_limit_store :
            /\ k \in DOMAIN rate_limit_store'
            /\ rate_limit_store'[k] >= rate_limit_store[k]]_vars

\* C27: a request that rate_limiter lets through raises the count of its
\* owner's key by exactly one and changes no other count, and what its
\* endpoint does afterwards (201, 200, 422, 404, 503, 500, a cancellation)
\* changes no count: every request let through is counted once
C27_OneUnitPerRequest ==
    [][\A s \in Slots :
          /\ (pc[s] = "rate_limiter_check" /\ pc'[s] = "endpoint")
             => /\ rl_key[s][1] = api_key[s]
                /\ Get(rate_limit_store', rl_key[s], 0)
                     = Get(rate_limit_store, rl_key[s], 0) + 1
                /\ \A k \in DOMAIN rate_limit_store :
                     k # rl_key[s] => Get(rate_limit_store', k, 0) = rate_limit_store[k]
          /\ (pc[s] \in {"endpoint", "awaiting"} /\ pc'[s] # pc[s])
             => rate_limit_store' = rate_limit_store]_vars

\* C28: the history an add_message call hands to ai_agent.run is the
\* (role, content) pairs of exactly the rows committed for its conversation
\* when it loads them, in the order of the history (timestamp, then id); the
\* user message of the call is in the session only, and the text is handed
\* over separately
C28_HistoryHandedOver ==
    [][\A s \in Slots :
          (pc[s] = "endpoint" /\ pc'[s] = "awaiting")
          => LET cid == conv_id'[s]
                 ids == {i \in 1..Len(messages) : messages[i].conversation_id = cid}
                 q == ByTimestampThenId(cid)
             IN  /\ Len(message_history'[s]) = Cardinality(ids)
                 /\ {q[k] : k \in 1..Len(q)} = ids
                 /\ \A k \in 1..Len(q) :
                      message_history'[s][k] =
                          [role |-> messages[q[k]].role, content |-> messages[q[k]].content]
                 /\ messages' = messages
                 /\ message'[s] = session_new'[s][1].content
                 /\ \A t \in Slots \ {s} : session_new'[t] = session_new[t]]_vars

\* C29: the answer of an add_message call that does not reach the agent is
\* decided in this order: a blank text gets 422, whether the conversation
\* exists, is foreign or is the caller's own; otherwise a conversation that
\* does not exist or is foreign gets 404, whether an agent is bound or not;
\* 503 is given only for a non-blank text on a conversation the caller owns.
\* The answer is the same for a foreign and for a missing conversation
C29_CheckPrecedence ==
    [][(response'.op = "append" /\ response'.agent = NoAgent)
          => /\ response'.status =
                  (IF WhitespaceOnly(response'.message) THEN 422
                   ELSE IF ~OwnedBy(response'.conversation_id, response'.api_key) THEN 404
                   ELSE 503)
             /\ response'.status = 503 => ~chat_ai_agent
             /\ ~OwnedBy(response'.conversation_id, response'.api_key)
                => Observable(response') =
                     (IF WhitespaceOnly(response'.message)
                      THEN [status |-> 422,
                            detail |-> <<"Message cannot be empty or consist only of whitespace">>,
                            reply |-> << >>, listed |-> << >>]
                      ELSE [status |-> 404, detail |-> <<"Conversation not found">>,
                            reply |-> << >>, listed |-> << >>])]_vars

\* a blank text is refused with 422 on a conversation of another owner
\* while no agent is bound
C29_Witness ==
    /\ response.op = "append"
    /\ response.status = 422
    /\ Exists(response.conversation_id)
    /\ conversations[response.conversation_id].owner_identifier # response.api_key
    /\ ~chat_ai_agent

\* C30: once initialize_agents has bound an agent at startup, an
\* add_message call with a non-blank text on a conversation the caller owns
\* reaches ai_agent.run and is not answered 503; and 503 is answered only
\* while initialize_agents has bound no agent
C30_InitializedAgentServes ==
    [][response'.op = "append"
          => /\ (agents_ai_agent /\ ~WhitespaceOnly(response'.message)
                   /\ OwnedBy(response'.conversation_id, response'.api_key))
                => (response'.agent # NoAgent /\ response'.status # 503)
             /\ response'.status = 503 => ~agents_ai_agent]_vars

====
